---- MODULE Spec2Model ----
(***************************************************************************)
(* Model of pynrfjprog/MultiAPI.py: the MultiAPI proxy (Facade), its       *)
(* _runner worker process, the two multiprocessing queues between them     *)
(* and the acquire_with_timeout lock guard.                                *)
(*                                                                         *)
(* Python values are encoded as follows.  An optional value (None or a     *)
(* value) is a sequence of length at most one: <<>> is None, <<v>> is v.   *)
(* A dict of keyword arguments is a set of <<key, value>> pairs.  A string *)
(* produced by traceback.format_exc() is a tuple; "" is <<>>.              *)
(***************************************************************************)
EXTENDS Integers, Sequences, FiniteSets, TLC

\* Bound of the model: operations (forwarding calls, attribute accesses,
\* is_alive(), terminate(), scope entries) the application threads start,
\* all threads together.  Leaving an entered scope is always possible.
MaxOps == 3

\* The application threads sharing the one MultiAPI instance.
Threads == {1, 2}

\* exec_lock value when no thread holds the lock.
NoThread == 0

None == <<>>

(***************************************************************************)
(* The Target API (API.API).  Its source is not part of the modelled       *)
(* files; it is modelled from the contract the proxy depends on: named     *)
(* operations taking positional/keyword arguments, returning a value or    *)
(* raising a typed error, with an open/close lifecycle pair and a          *)
(* catchable error on wrong arguments.  The instance has one memory word.  *)
(***************************************************************************)
ApiMethods == {"open", "close", "read_u32", "write_u32", "write"}

\* Names that hasattr() finds on every class object although no instance
\* has them: the attributes a class gets from its metaclass, type.
TypeAttrs == {"mro"}

\* A name neither the class nor the instance has.
UnknownNames == {"bogus"}

\* The API instance API.API(...) returns: closed, memory word 0.
ApiNew == [opened |-> FALSE, mem |-> 0]

\* An exception raised in the process that runs the operation: it carries
\* its class, its constructor arguments and the traceback of the raise.
Raise(kind, msg, where) ==
    [kind |-> kind, args |-> <<msg>>, tb |-> <<"Traceback", where, kind>>]

\* str(e) of an exception: the single constructor argument.
Message(e) == IF Len(e.args) = 1 THEN e.args[1] ELSE ""

\* Outcome of one invocation: the new instance state, and exactly one of a
\* raised exception and a returned value (None for a void operation).
ApiOutcome(api, exc, res) == [api |-> api, exc |-> exc, res |-> res]

\* Python's binding of (addr, data) for write_u32: positional first, then
\* keyword "data"; anything else is a TypeError (<<>> here).
BindWrite(args, kwargs) ==
    IF Len(args) = 2 /\ kwargs = {} THEN <<args[1], args[2]>>
    ELSE IF Len(args) = 1 /\ Cardinality(kwargs) = 1
            /\ \E v \in 0..1 : kwargs = {<<"data", v>>}
         THEN <<args[1], (CHOOSE v \in 0..1 : kwargs = {<<"data", v>>})>>
    ELSE <<>>

ApiCall(api, name, args, kwargs) ==
    CASE name = "open" ->
           IF args # <<>> \/ kwargs # {}
           THEN ApiOutcome(api, <<Raise("TypeError", "bad arguments", name)>>, None)
           ELSE IF api.opened
           THEN ApiOutcome(api, <<Raise("APIError", "already open", name)>>, None)
           ELSE ApiOutcome([api EXCEPT !.opened = TRUE], None, None)
      [] name = "close" ->
           IF args # <<>> \/ kwargs # {}
           THEN ApiOutcome(api, <<Raise("TypeError", "bad arguments", name)>>, None)
           ELSE ApiOutcome([api EXCEPT !.opened = FALSE], None, None)
      [] name = "read_u32" ->
           IF args # <<>> \/ kwargs # {}
           THEN ApiOutcome(api, <<Raise("TypeError", "bad arguments", name)>>, None)
           ELSE IF ~api.opened
           THEN ApiOutcome(api, <<Raise("APIError", "not open", name)>>, None)
           ELSE ApiOutcome(api, None, <<api.mem>>)
      [] name = "write_u32" ->
           IF BindWrite(args, kwargs) = <<>>
           THEN ApiOutcome(api, <<Raise("TypeError", "bad arguments", name)>>, None)
           ELSE IF ~api.opened
           THEN ApiOutcome(api, <<Raise("APIError", "not open", name)>>, None)
           ELSE IF BindWrite(args, kwargs)[1] # 0
           THEN ApiOutcome(api, <<Raise("APIError", "invalid address", name)>>, None)
           ELSE ApiOutcome([api EXCEPT !.mem = BindWrite(args, kwargs)[2]], None, None)
      [] name = "write" ->
           IF Len(args) # 2 \/ kwargs # {}
           THEN ApiOutcome(api, <<Raise("TypeError", "bad arguments", name)>>, None)
           ELSE IF ~api.opened
           THEN ApiOutcome(api, <<Raise("APIError", "not open", name)>>, None)
           ELSE ApiOutcome(api, None, None)
      [] OTHER ->
           ApiOutcome(api, <<Raise("AttributeError", name, name)>>, None)

(***************************************************************************)
(* Envelopes: _Command and _CommandAck.                                    *)
(***************************************************************************)
\* A call as the application writes it: m.name(*args, **kwargs).
Call(name, args, kwargs) == [cmd |-> name, args |-> args, kwargs |-> kwargs]

\* The keys of a keyword-argument dict.
Keys(kwargs) == {kv[1] : kv \in kwargs}

\* _Command(func_name, *args, **kwargs): __init__(self, cmd, *args, **kwargs)
\* binds func_name to cmd, so a keyword argument named "cmd" is a TypeError
\* (None here); otherwise the envelope holds the three verbatim.
Command(func_name, args, kwargs) ==
    IF "cmd" \in Keys(kwargs) THEN None
    ELSE <<[cmd |-> func_name, args |-> args, kwargs |-> kwargs]>>

\* _CommandAck.__init__(exception=None, result=None, stacktrace="")
CommandAck(exception, result, stacktrace) ==
    [exception |-> exception, stacktrace |-> stacktrace, result |-> result]

(***************************************************************************)
(* multiprocessing.Queue: items cross the process boundary pickled.        *)
(* pickle rebuilds an exception from its class and constructor arguments;  *)
(* the traceback is not part of the pickle.                                *)
(***************************************************************************)
\* Variant: the pickle keeps the class of the exception only.
DumpsExceptionClassOnly(e) == [cls |-> e.kind, args |-> <<>>]

DumpsException(e) == [cls |-> e.kind, args |-> e.args]

LoadsException(p) == [kind |-> p.cls, args |-> p.args, tb |-> <<>>]

DumpsCommand(c) ==
    [cls |-> "_Command", cmd |-> c.cmd, args |-> c.args, kwargs |-> c.kwargs]

LoadsCommand(p) == [cmd |-> p.cmd, args |-> p.args, kwargs |-> p.kwargs]

DumpsAck(a) ==
    [cls |-> "_CommandAck",
     exception |-> IF a.exception = None THEN None
                   ELSE <<DumpsException(a.exception[1])>>,
     stacktrace |-> a.stacktrace,
     result |-> a.result]

LoadsAck(p) ==
    [exception |-> IF p.exception = None THEN None
                   ELSE <<LoadsException(p.exception[1])>>,
     stacktrace |-> p.stacktrace,
     result |-> p.result]

\* multiprocessing.Queue()
NewQueue == [buf |-> <<>>, closed |-> FALSE]

\* Variant: put() enqueues the item twice.
QueuePutTwice(q, item) == [q EXCEPT !.buf = Append(Append(@, item), item)]

\* Queue.put(obj): FIFO append.  item.tag names the call the envelope
\* belongs to; it is bookkeeping of the model, not data of the envelope.
QueuePut(q, item) == [q EXCEPT !.buf = Append(@, item)]

\* Queue.get(): the item returned and the queue left behind.
QueueFront(q) == Head(q.buf)

\* Variant: get() returns the front item without removing it.
QueuePopKeeps(q) == q

QueuePop(q) == [q EXCEPT !.buf = Tail(@)]

\* Data words are 0 and 1; the argument value Image stands for a block of
\* data (a firmware image) whose pickle is larger than what the pipe of a
\* queue takes while nobody reads it.
Image == 2

\* The pickled envelope p does not fit into the pipe as a whole.
ExceedsPipe(p) == \E i \in 1..Len(p.args) : p.args[i] = Image

\* Queue.join_thread() of a closed queue q nobody reads any more: the feeder
\* thread ends when it has written all that put() buffered into the pipe,
\* and it blocks in the write of an envelope the pipe cannot take.
FeederDrains(q) == \A i \in 1..Len(q.buf) : ~ExceedsPipe(q.buf[i].env)

\* Queue.close()
QueueClose(q) == [q EXCEPT !.closed = TRUE]

(***************************************************************************)
(* State.                                                                  *)
(***************************************************************************)
VARIABLES
    terminated,   \* MultiAPI._terminated
    exec_lock,    \* MultiAPI._exec_lock: NoThread, or the thread that acquired it
    CmdQueue,     \* MultiAPI._CmdQueue (inbound channel)
    CmdAckQueue,  \* MultiAPI._CmdAckQueue (outbound channel)
    runner,       \* the _runner process: where it is, and its locals cmd / ack
    api,          \* the API instance the _runner process owns
    pc,           \* per thread: the statement it is at
    call,         \* per thread: _execute's func_name, args, kwargs
    ack,          \* per thread: _execute's local ack
    ctx,          \* per thread: where it is in "with MultiAPI(...) as m:"
    nops,         \* per thread: operations started so far
    outcome,      \* per thread: what its last operation returned or raised
    solo,         \* the application drives the instance from one thread only
    sentLog,      \* history: tags of the commands put on CmdQueue, in order
    execLog,      \* history: tags of the commands the runner invoked, in order
    recvLog,      \* history: tags of the acknowledgements taken by callers
    kills,        \* history: times _runner_process.terminate() was performed
    local,        \* a reference API instance, driven directly (no proxy)
    inst,         \* several instances: per instance, the attributes __init__ sets
    locks,        \* several instances: the threading.Lock objects there are
    queues,       \* several instances: the multiprocessing.Queue objects there are
    procs,        \* several instances: the runner processes there are
    user          \* several instances: per instance, the thread that drives it

\* The state of the application that has several MultiAPI instances, each
\* driven by a thread of its own (the other variables are the state of the
\* application that has one instance).
multi == <<inst, locks, queues, procs, user>>

vars == <<terminated, exec_lock, CmdQueue, CmdAckQueue, runner, api,
          pc, call, ack, ctx, nops, outcome, solo, sentLog, execLog, recvLog,
          kills, local, multi>>

\* The history variables, which no statement of the program reads.  The
\* three logs and the reference instance are kept for single-threaded use,
\* where the order of the calls is the program order of the one thread.
hist == <<solo, sentLog, execLog, recvLog, kills, local, multi>>

\* The thread of a single-threaded application.
SoloThread == CHOOSE t \in Threads : \A u \in Threads : t <= u

Log(log, x) == IF solo THEN Append(log, x) ELSE log

\* The calls application threads make: name, positional, keyword arguments.
Calls ==
    { Call("open", <<>>, {}),
      Call("close", <<>>, {}),
      Call("read_u32", <<>>, {}),
      Call("write_u32", <<0, 1>>, {}),
      Call("write_u32", <<0>>, {<<"data", 1>>}),
      Call("write_u32", <<1, 0>>, {}),
      Call("read_u32", <<>>, {<<"cmd", 1>>}),
      Call("write", <<0, Image>>, {}),
      Call("mro", <<>>, {}),
      Call("bogus", <<>>, {}) }

NoCall == Call("", <<>>, {})

\* What the runner's last invocation was and did (bookkeeping of the model).
NoDid == [cmd |-> NoCall, exc |-> None, res |-> None]

NoAck == [env |-> CommandAck(None, None, <<>>), tag |-> <<>>, did |-> NoDid]

\* What an operation of a thread did: op is the kind of operation, status is
\* "returned" or "raised" ("none" while it runs), res the value returned,
\* exc the exception raised, printed what print() wrote, cmd the call made,
\* scope the part of "with m:" the operation belonged to ("none" outside),
\* from the tag of the acknowledgement the outcome was taken from, and want
\* what the same call did on the reference instance (None if not made).
Outcome(op, status, res, exc, printed, cmd, from) ==
    [op |-> op, status |-> status, res |-> res, exc |-> exc,
     printed |-> printed, cmd |-> cmd, from |-> from, want |-> None,
     did |-> NoDid, scope |-> "none"]

NoOutcome(op, cmd) == Outcome(op, "none", None, None, <<>>, cmd, <<>>)

Returned(op, res, cmd, from) == Outcome(op, "returned", res, None, <<>>, cmd, from)

Raised(op, e, printed, cmd, from) == Outcome(op, "raised", None, <<e>>, printed, cmd, from)

\* The tag of the operation thread t is running.
Tag(t) == <<t, nops[t]>>

RECURSIVE SumOps(_)
SumOps(S) == IF S = {} THEN 0
             ELSE LET t == CHOOSE x \in S : TRUE IN nops[t] + SumOps(S \ {t})

\* Thread t of the application may start another operation.
MayStart(t) == SumOps(Threads) < MaxOps /\ (solo => t = SoloThread)

RunnerIdle ==
    [state |-> "get", cmd |-> NoCall, ack |-> CommandAck(None, None, <<>>),
     tag |-> <<>>, did |-> NoDid]

RunnerDead == [RunnerIdle EXCEPT !.state = "dead"]

\* The variables of the application that has one instance.
single == <<terminated, exec_lock, CmdQueue, CmdAckQueue, runner, api,
            pc, call, ack, ctx, nops, outcome, solo, sentLog, execLog, recvLog,
            kills, local>>

\* The MultiAPI instances of the application that has several; instance m
\* is driven by thread m.
Instances == {1, 2}

\* Operations the thread of an instance starts at most.
MaxOpsEach == 2

\* Variant: the lock is an attribute of the class, one for all instances.
MultiAPIInitClassLock(m) ==
    [CmdQueue |-> <<m, "CmdQueue">>, CmdAckQueue |-> <<m, "CmdAckQueue">>,
     runner_process |-> m, terminated |-> FALSE,
     exec_lock |-> CHOOSE l \in Instances : \A k \in Instances : l <= k]

\* MultiAPI.__init__ of instance m: the attributes of self.  Each of
\* multiprocessing.Queue(), multiprocessing.Process(...), threading.Lock()
\* makes a new object; the attribute holds the reference to it.
MultiAPIInit(m) ==
    [CmdQueue |-> <<m, "CmdQueue">>, CmdAckQueue |-> <<m, "CmdAckQueue">>,
     runner_process |-> m, terminated |-> FALSE, exec_lock |-> m]

\* The thread that drives an instance, before its first operation.
NewUser ==
    [pc |-> "idle", call |-> NoCall, ack |-> NoAck, nops |-> 0,
     outcome |-> NoOutcome("", NoCall), local |-> ApiNew]

\* Every instance constructed: the objects made, and the references kept.
InitMulti ==
    /\ inst = [m \in Instances |-> MultiAPIInit(m)]
    /\ locks = [l \in Instances |-> NoThread]
    /\ queues = [q \in Instances \X {"CmdQueue", "CmdAckQueue"} |-> NewQueue]
    /\ procs = [p \in Instances |-> [runner |-> RunnerIdle, api |-> ApiNew]]
    /\ user = [m \in Instances |-> NewUser]

\* MultiAPI.__init__: queues created, runner process started, flag cleared,
\* lock created; the runner has built its API instance (_api_setup).
Init ==
    /\ terminated = FALSE
    /\ exec_lock = NoThread
    /\ CmdQueue = NewQueue
    /\ CmdAckQueue = NewQueue
    /\ runner = RunnerIdle
    /\ api = ApiNew
    /\ pc = [t \in Threads |-> "idle"]
    /\ call = [t \in Threads |-> NoCall]
    /\ ack = [t \in Threads |-> NoAck]
    /\ ctx = [t \in Threads |-> "none"]
    /\ nops = [t \in Threads |-> 0]
    /\ outcome = [t \in Threads |-> NoOutcome("", NoCall)]
    /\ solo \in BOOLEAN
    /\ sentLog = <<>>
    /\ execLog = <<>>
    /\ recvLog = <<>>
    /\ kills = 0
    /\ local = ApiNew
    /\ InitMulti

(***************************************************************************)
(* The application threads.                                                *)
(***************************************************************************)
\* Variant: __getattr__ forwards every name.
HasAttrAny(name) == TRUE

\* hasattr(API.API, name)
HasAttr(name) == name \in ApiMethods \cup TypeAttrs

\* Variant: the flag is never consulted.
IsAliveAlways == TRUE

\* MultiAPI.is_alive()
IsAlive == ~terminated

\* Variant: the acquisition result is taken to be True always.
AcquireResultAlways(lock) == TRUE

\* acquire_with_timeout: lock.acquire(timeout=timeout) is False only when
\* another holder kept the lock for the whole wait.
AcquireResult(lock) == lock = NoThread

\* Variant: the lock is released on every way out, acquired or not.
AfterYieldReleaseAlways(lock, result, bodyRaised) == NoThread

\* Variant: the lock is never released.
AfterYieldNeverRelease(lock, result, bodyRaised) == lock

\* acquire_with_timeout, the statements after the yield: they run when the
\* with-body completes; when the body raises, the exception is thrown into
\* the generator at the yield and nothing after it runs.
AfterYield(lock, result, bodyRaised) ==
    IF bodyRaised THEN lock
    ELSE IF result THEN NoThread
    ELSE lock

\* Variant: "if ack.result:" in place of "if ack.result is not None:".
DeliverTruthy(a, cmd) ==
    IF a.env.exception # None
    THEN Raised("call", a.env.exception[1], a.env.stacktrace, cmd, a.tag)
    ELSE IF a.env.result # None /\ a.env.result[1] # 0
    THEN Returned("call", a.env.result, cmd, a.tag)
    ELSE Returned("call", None, cmd, a.tag)

\* _execute after the with-block: what the acknowledgement makes of the call.
Deliver(a, cmd) ==
    IF a.env.exception # None
    THEN Raised("call", a.env.exception[1], a.env.stacktrace, cmd, a.tag)
    ELSE IF a.env.result # None
    THEN Returned("call", a.env.result, cmd, a.tag)
    ELSE Returned("call", None, cmd, a.tag)

\* The call made directly on an API instance: api.name(*args, **kwargs).
LocalCall(a, c) == ApiCall(a, c.cmd, c.args, c.kwargs)

\* The outcome o of a forwarded call, with what the reference instance did
\* and what the runner did for the acknowledgement used.
Fin(t, o) == [o EXCEPT !.want = outcome[t].want, !.did = ack[t].did]

\* Variant: an exception of open() in __enter__ is swallowed, the with-body
\* runs and __exit__ follows.
LeaveEnterSwallows(t, o) ==
    /\ outcome' = [outcome EXCEPT ![t] = [o EXCEPT !.scope = ctx[t]]]
    /\ call' = [call EXCEPT ![t] = NoCall]
    /\ ack' = [ack EXCEPT ![t] = NoAck]
    /\ pc' = [pc EXCEPT ![t] =
                IF ctx[t] = "exit" /\ o.op = "call" /\ o.status = "returned"
                THEN "exit_terminate" ELSE "idle"]
    /\ ctx' = [ctx EXCEPT ![t] =
                CASE ctx[t] = "enter" ->
                       "body"
                  [] ctx[t] = "exit" ->
                       IF o.op = "call" /\ o.status = "returned"
                       THEN "exit" ELSE "none"
                  [] OTHER -> ctx[t]]

\* Thread t's operation ends with outcome o.  In scoped use, __enter__ is
\* "self.open(); return self" and __exit__ is "self.close();
\* self.terminate()": an exception of open() or close() leaves the method.
Leave(t, o) ==
    /\ outcome' = [outcome EXCEPT ![t] = [o EXCEPT !.scope = ctx[t]]]
    /\ call' = [call EXCEPT ![t] = NoCall]
    /\ ack' = [ack EXCEPT ![t] = NoAck]
    /\ pc' = [pc EXCEPT ![t] =
                IF ctx[t] = "exit" /\ o.op = "call" /\ o.status = "returned"
                THEN "exit_terminate" ELSE "idle"]
    /\ ctx' = [ctx EXCEPT ![t] =
                CASE ctx[t] = "enter" ->
                       IF o.status = "raised" THEN "none" ELSE "body"
                  [] ctx[t] = "exit" ->
                       IF o.op = "call" /\ o.status = "returned"
                       THEN "exit" ELSE "none"
                  [] OTHER -> ctx[t]]

\* m.name(*args, **kwargs): __getattr__(name), then the lambda calls
\* _execute(name, *args, **kwargs).
GetAttr(t, c) ==
    /\ pc[t] = "idle"
    /\ ctx[t] \in {"none", "body"}
    /\ MayStart(t)
    /\ nops' = [nops EXCEPT ![t] = @ + 1]
    /\ IF HasAttr(c.cmd)
       THEN /\ pc' = [pc EXCEPT ![t] = "execute"]
            /\ call' = [call EXCEPT ![t] = c]
            /\ outcome' = [outcome EXCEPT ![t] = NoOutcome("call", c)]
            /\ UNCHANGED <<ack, ctx>>
       ELSE Leave(t, Raised("getattr",
                            Raise("AttributeError", c.cmd, "__getattr__"),
                            <<>>, c, <<>>))
    /\ UNCHANGED <<terminated, exec_lock, CmdQueue, CmdAckQueue, runner, api, hist>>

\* _execute: if not self.is_alive(): raise API.APIError(...)
ExecuteCheck(t) ==
    /\ pc[t] = "execute"
    /\ IF IsAlive
       THEN /\ pc' = [pc EXCEPT ![t] = "acquire"]
            /\ outcome' = [outcome EXCEPT ![t].want =
                               IF solo THEN <<LocalCall(local, call[t])>> ELSE None]
            /\ local' = IF solo THEN LocalCall(local, call[t]).api ELSE local
            /\ UNCHANGED <<call, ack, ctx>>
       ELSE /\ Leave(t, Raised("call",
                               Raise("APIError", "Runner process terminated, API is unavailable.", "_execute"),
                               <<>>, call[t], <<>>))
            /\ UNCHANGED local
    /\ UNCHANGED <<terminated, exec_lock, CmdQueue, CmdAckQueue, runner, api, nops,
                   solo, multi, sentLog, execLog, recvLog, kills>>

\* _execute: with acquire_with_timeout(self._exec_lock, 10) as acquired,
\* and on "not acquired" the raise TimeoutError(...) of the with-body.
ExecuteAcquire(t) ==
    /\ pc[t] = "acquire"
    /\ IF AcquireResult(exec_lock)
       THEN /\ exec_lock' = t
            /\ pc' = [pc EXCEPT ![t] = "put"]
            /\ UNCHANGED <<call, ack, ctx, outcome>>
       ELSE /\ exec_lock' = AfterYield(exec_lock, FALSE, TRUE)
            /\ Leave(t, Fin(t, Raised("call",
                               Raise("TimeoutError", "CmdQueue is full and was not cleared in 10 seconds!", "_execute"),
                               <<>>, call[t], <<>>)))
    /\ UNCHANGED <<terminated, CmdQueue, CmdAckQueue, runner, api, nops, hist>>

\* _execute: self._CmdQueue.put(_Command(func_name, *args, **kwargs)).
\* _Command(...) raises TypeError when it cannot bind its arguments, and
\* put() raises ValueError on a closed queue; both leave the with-body by
\* an exception.
ExecutePut(t) ==
    /\ pc[t] = "put"
    /\ IF Command(call[t].cmd, call[t].args, call[t].kwargs) = None
       THEN /\ exec_lock' = AfterYield(exec_lock, TRUE, TRUE)
            /\ Leave(t, Fin(t, Raised("call",
                               Raise("TypeError", "multiple values for argument", "_Command"),
                               <<>>, call[t], <<>>)))
            /\ UNCHANGED <<CmdQueue, sentLog>>
       ELSE IF CmdQueue.closed
       THEN /\ exec_lock' = AfterYield(exec_lock, TRUE, TRUE)
            /\ Leave(t, Fin(t, Raised("call",
                               Raise("ValueError", "Queue is closed", "put"),
                               <<>>, call[t], <<>>)))
            /\ UNCHANGED <<CmdQueue, sentLog>>
       ELSE /\ CmdQueue' = QueuePut(CmdQueue,
                   [env |-> DumpsCommand(Command(call[t].cmd, call[t].args, call[t].kwargs)[1]),
                    tag |-> Tag(t)])
            /\ sentLog' = Log(sentLog, Tag(t))
            /\ pc' = [pc EXCEPT ![t] = "get"]
            /\ UNCHANGED <<exec_lock, call, ack, ctx, outcome>>
    /\ UNCHANGED <<terminated, CmdAckQueue, runner, api, nops, solo, multi, execLog, recvLog, kills, local>>

\* _execute: ack = self._CmdAckQueue.get(), an acknowledgement arrives.
ExecuteGet(t) ==
    /\ pc[t] = "get"
    /\ CmdAckQueue.buf # <<>>
    /\ ack' = [ack EXCEPT ![t] = [env |-> LoadsAck(QueueFront(CmdAckQueue).env),
                                  tag |-> QueueFront(CmdAckQueue).tag,
                                  did |-> QueueFront(CmdAckQueue).did]]
    /\ CmdAckQueue' = QueuePop(CmdAckQueue)
    /\ recvLog' = Log(recvLog, QueueFront(CmdAckQueue).tag)
    /\ pc' = [pc EXCEPT ![t] = "release"]
    /\ UNCHANGED <<terminated, exec_lock, CmdQueue, runner, api, call, ctx, nops, outcome,
                   solo, multi, sentLog, execLog, kills, local>>

\* _execute: ack = self._CmdAckQueue.get() on a queue that terminate() has
\* closed: get() raises (ValueError "Queue is closed", or OSError from the
\* closed pipe).  A thread already blocked in get() may as well stay
\* blocked: that is this action not being taken.
ExecuteGetClosed(t) ==
    /\ pc[t] = "get"
    /\ CmdAckQueue.closed
    /\ exec_lock' = AfterYield(exec_lock, TRUE, TRUE)
    /\ Leave(t, Fin(t, Raised("call", Raise("ValueError", "Queue is closed", "get"),
                              <<>>, call[t], <<>>)))
    /\ UNCHANGED <<terminated, CmdQueue, CmdAckQueue, runner, api, nops, hist>>

\* _execute: the with-block is left normally.
ExecuteRelease(t) ==
    /\ pc[t] = "release"
    /\ exec_lock' = AfterYield(exec_lock, TRUE, FALSE)
    /\ pc' = [pc EXCEPT ![t] = "deliver"]
    /\ UNCHANGED <<terminated, CmdQueue, CmdAckQueue, runner, api, call, ack, ctx, nops, outcome, hist>>

\* _execute: print the trace and re-raise, or return the result.
ExecuteDeliver(t) ==
    /\ pc[t] = "deliver"
    /\ Leave(t, Fin(t, Deliver(ack[t], call[t])))
    /\ UNCHANGED <<terminated, exec_lock, CmdQueue, CmdAckQueue, runner, api, nops, hist>>

\* MultiAPI.is_alive() called by the application.
CallIsAlive(t) ==
    /\ pc[t] = "idle"
    /\ ctx[t] \in {"none", "body"}
    /\ MayStart(t)
    /\ nops' = [nops EXCEPT ![t] = @ + 1]
    /\ Leave(t, Returned("is_alive", <<IsAlive>>, NoCall, <<>>))
    /\ UNCHANGED <<terminated, exec_lock, CmdQueue, CmdAckQueue, runner, api, hist>>

(***************************************************************************)
(* MultiAPI.terminate(), statement by statement.                           *)
(***************************************************************************)
\* terminate() is called, by the application or as the second statement of
\* __exit__: if self.is_alive(): ... ; otherwise it returns at once.
Terminate(t) ==
    /\ \/ /\ pc[t] = "idle"
          /\ ctx[t] \in {"none", "body"}
          /\ MayStart(t)
          /\ nops' = [nops EXCEPT ![t] = @ + 1]
       \/ /\ pc[t] = "exit_terminate"
          /\ UNCHANGED nops
    /\ IF IsAlive
       THEN /\ pc' = [pc EXCEPT ![t] = "t_kill"]
            /\ outcome' = [outcome EXCEPT ![t] = NoOutcome("terminate", NoCall)]
            /\ UNCHANGED <<call, ack, ctx>>
       ELSE Leave(t, Returned("terminate", None, NoCall, <<>>))
    /\ UNCHANGED <<terminated, exec_lock, CmdQueue, CmdAckQueue, runner, api, hist>>

\* Variant: the runner process is not stopped.
TerminateKillSkipped(t) ==
    /\ pc[t] = "t_kill"
    /\ pc' = [pc EXCEPT ![t] = "t_close_cmd"]
    /\ UNCHANGED <<terminated, exec_lock, CmdQueue, CmdAckQueue, runner, api, call, ack, ctx, nops,
                   outcome, hist>>

\* self._runner_process.terminate(): the runner stops where it is; what it
\* held (a command taken, an acknowledgement not yet put) is gone.
TerminateKill(t) ==
    /\ pc[t] = "t_kill"
    /\ runner' = RunnerDead
    /\ kills' = kills + 1
    /\ pc' = [pc EXCEPT ![t] = "t_close_cmd"]
    /\ UNCHANGED <<terminated, exec_lock, CmdQueue, CmdAckQueue, api, call, ack, ctx, nops, outcome,
                   solo, multi, sentLog, execLog, recvLog, local>>

\* self._CmdQueue.close()
TerminateCloseCmd(t) ==
    /\ pc[t] = "t_close_cmd"
    /\ CmdQueue' = QueueClose(CmdQueue)
    /\ pc' = [pc EXCEPT ![t] = "t_close_ack"]
    /\ UNCHANGED <<terminated, exec_lock, CmdAckQueue, runner, api, call, ack, ctx, nops, outcome, hist>>

\* self._CmdAckQueue.close()
TerminateCloseAck(t) ==
    /\ pc[t] = "t_close_ack"
    /\ CmdAckQueue' = QueueClose(CmdAckQueue)
    /\ pc' = [pc EXCEPT ![t] = "t_join"]
    /\ UNCHANGED <<terminated, exec_lock, CmdQueue, runner, api, call, ack, ctx, nops, outcome, hist>>

\* self._runner_process.join(); self._CmdAckQueue.join_thread();
\* self._CmdQueue.join_thread(): wait for the stopped runner and for the
\* closed queues' feeder threads.
TerminateJoin(t) ==
    /\ pc[t] = "t_join"
    /\ runner.state = "dead"
    /\ CmdQueue.closed /\ CmdAckQueue.closed
    /\ FeederDrains(CmdQueue)
    /\ pc' = [pc EXCEPT ![t] = "t_flag"]
    /\ UNCHANGED <<terminated, exec_lock, CmdQueue, CmdAckQueue, runner, api, call, ack, ctx, nops, outcome, hist>>

\* Variant: the flag is flipped, not set.
TerminatedFlipped(flag) == ~flag

\* The value "self._terminated = True" stores, whatever the flag was.
TerminatedSet(flag) == TRUE

\* self._terminated = True, and terminate() returns.
TerminateFlag(t) ==
    /\ pc[t] = "t_flag"
    /\ terminated' = TerminatedSet(terminated)
    /\ Leave(t, Returned("terminate", None, NoCall, <<>>))
    /\ UNCHANGED <<exec_lock, CmdQueue, CmdAckQueue, runner, api, nops, hist>>

(***************************************************************************)
(* Scoped use: with m: ...                                                 *)
(***************************************************************************)
\* __enter__: self.open()
Enter(t) ==
    /\ pc[t] = "idle"
    /\ ctx[t] = "none"
    /\ MayStart(t)
    /\ HasAttr("open")
    /\ nops' = [nops EXCEPT ![t] = @ + 1]
    /\ ctx' = [ctx EXCEPT ![t] = "enter"]
    /\ call' = [call EXCEPT ![t] = Call("open", <<>>, {})]
    /\ outcome' = [outcome EXCEPT ![t] = NoOutcome("call", Call("open", <<>>, {}))]
    /\ pc' = [pc EXCEPT ![t] = "execute"]
    /\ UNCHANGED <<terminated, exec_lock, CmdQueue, CmdAckQueue, runner, api, ack, hist>>

\* __exit__: self.close(), reached when the with-body ends or raises.
Exit(t) ==
    /\ pc[t] = "idle"
    /\ ctx[t] = "body"
    /\ HasAttr("close")
    /\ nops' = [nops EXCEPT ![t] = @ + 1]
    /\ ctx' = [ctx EXCEPT ![t] = "exit"]
    /\ call' = [call EXCEPT ![t] = Call("close", <<>>, {})]
    /\ outcome' = [outcome EXCEPT ![t] = NoOutcome("call", Call("close", <<>>, {}))]
    /\ pc' = [pc EXCEPT ![t] = "execute"]
    /\ UNCHANGED <<terminated, exec_lock, CmdQueue, CmdAckQueue, runner, api, ack, hist>>

(***************************************************************************)
(* The _runner process.                                                    *)
(***************************************************************************)
\* traceback.format_exc() in the except clause.
FormatExc(e) == e.tb

\* api_functions[cmd.cmd](*cmd.args, **cmd.kwargs), with api_functions the
\* bound methods of the instance: a name that is none is a KeyError.
RunnerCall(a, cmd) ==
    IF cmd.cmd \in ApiMethods
    THEN ApiCall(a, cmd.cmd, cmd.args, cmd.kwargs)
    ELSE ApiOutcome(a, <<Raise("KeyError", cmd.cmd, "_runner")>>, None)

\* Variant: the except clause does not record the trace.
RunnerAckNoTrace(o) ==
    IF o.exc # None
    THEN CommandAck(<<o.exc[1]>>, None, <<>>)
    ELSE CommandAck(None, o.res, <<>>)

\* The try / except Exception / else of the loop body: the acknowledgement.
RunnerAck(o) ==
    IF o.exc # None
    THEN CommandAck(<<o.exc[1]>>, None, FormatExc(o.exc[1]))
    ELSE CommandAck(None, o.res, <<>>)

\* cmd = self._CmdQueue.get()
RunnerGet ==
    /\ runner.state = "get"
    /\ CmdQueue.buf # <<>>
    /\ runner' = [runner EXCEPT !.state = "call",
                                !.cmd = LoadsCommand(QueueFront(CmdQueue).env),
                                !.tag = QueueFront(CmdQueue).tag]
    /\ CmdQueue' = QueuePop(CmdQueue)
    /\ UNCHANGED <<terminated, exec_lock, CmdAckQueue, api, pc, call, ack, ctx, nops, outcome, hist>>

\* Variant: the lookup api_functions[cmd.cmd] stands before the try, so a
\* KeyError leaves the loop and the process ends.
RunnerInvokeLookupOutsideTry ==
    /\ runner.state = "call"
    /\ api' = RunnerCall(api, runner.cmd).api
    /\ runner' = IF runner.cmd.cmd \notin ApiMethods THEN RunnerDead
                 ELSE [runner EXCEPT !.state = "put",
                                     !.ack = RunnerAck(RunnerCall(api, runner.cmd)),
                                     !.did = [cmd |-> runner.cmd,
                                              exc |-> RunnerCall(api, runner.cmd).exc,
                                              res |-> RunnerCall(api, runner.cmd).res]]
    /\ execLog' = Log(execLog, runner.tag)
    /\ UNCHANGED <<terminated, exec_lock, CmdQueue, CmdAckQueue, pc, call, ack, ctx, nops, outcome,
                   solo, multi, sentLog, recvLog, kills, local>>

\* The operation runs on the runner's API instance; the acknowledgement is
\* built.
RunnerInvoke ==
    /\ runner.state = "call"
    /\ api' = RunnerCall(api, runner.cmd).api
    /\ runner' = [runner EXCEPT !.state = "put",
                                !.ack = RunnerAck(RunnerCall(api, runner.cmd)),
                                !.did = [cmd |-> runner.cmd,
                                         exc |-> RunnerCall(api, runner.cmd).exc,
                                         res |-> RunnerCall(api, runner.cmd).res]]
    /\ execLog' = Log(execLog, runner.tag)
    /\ UNCHANGED <<terminated, exec_lock, CmdQueue, CmdAckQueue, pc, call, ack, ctx, nops, outcome,
                   solo, multi, sentLog, recvLog, kills, local>>

\* Variant: the loop is left after the acknowledgement of a failure.
RunnerPutStopsOnError ==
    /\ runner.state = "put"
    /\ CmdAckQueue' = QueuePut(CmdAckQueue,
                               [env |-> DumpsAck(runner.ack), tag |-> runner.tag,
                                did |-> runner.did])
    /\ runner' = IF runner.did.exc # None THEN RunnerDead ELSE RunnerIdle
    /\ UNCHANGED <<terminated, exec_lock, CmdQueue, api, pc, call, ack, ctx, nops, outcome, hist>>

\* self._CmdAckQueue.put(_CommandAck(...)), and back to the top of the loop.
RunnerPut ==
    /\ runner.state = "put"
    /\ CmdAckQueue' = QueuePut(CmdAckQueue,
                               [env |-> DumpsAck(runner.ack), tag |-> runner.tag,
                                did |-> runner.did])
    /\ runner' = RunnerIdle
    /\ UNCHANGED <<terminated, exec_lock, CmdQueue, api, pc, call, ack, ctx, nops, outcome, hist>>

(***************************************************************************)
(* Several instances, each driven by one thread.  The statements are those *)
(* of the methods above, executed on the objects that self's attributes    *)
(* refer to.                                                               *)
(***************************************************************************)
\* The calls the threads make on their instances.
CallsOn == {Call("open", <<>>, {}), Call("read_u32", <<>>, {})}

\* self._exec_lock, self._CmdQueue, self._CmdAckQueue, self._runner_process
\* of instance m: the objects referred to.
LockOf(m) == locks[inst[m].exec_lock]

CmdQueueOf(m) == queues[inst[m].CmdQueue]

CmdAckQueueOf(m) == queues[inst[m].CmdAckQueue]

RunnerOf(m) == procs[inst[m].runner_process].runner

\* m.is_alive()
IsAliveOf(m) == ~inst[m].terminated

\* The tag of the operation the thread of instance m is running.
TagOn(m) == <<m, user[m].nops>>

\* The operation of the thread of instance m ends with outcome o.
LeaveOn(m, o) ==
    user' = [user EXCEPT ![m].pc = "idle", ![m].outcome = o,
                         ![m].call = NoCall, ![m].ack = NoAck]

FinOn(m, o) == [o EXCEPT !.want = user[m].outcome.want, !.did = user[m].ack.did]

\* m.name(*args, **kwargs): __getattr__ and the lambda.
GetAttrOn(m, c) ==
    /\ user[m].pc = "idle"
    /\ user[m].nops < MaxOpsEach
    /\ HasAttr(c.cmd)
    /\ user' = [user EXCEPT ![m].pc = "execute", ![m].call = c, ![m].nops = @ + 1,
                            ![m].outcome = NoOutcome("call", c)]
    /\ UNCHANGED <<inst, locks, queues, procs, single>>

\* _execute: if not self.is_alive(): raise API.APIError(...)
ExecuteCheckOn(m) ==
    /\ user[m].pc = "execute"
    /\ IF IsAliveOf(m)
       THEN user' = [user EXCEPT
                        ![m].pc = "acquire",
                        ![m].outcome.want = <<LocalCall(user[m].local, user[m].call)>>,
                        ![m].local = LocalCall(user[m].local, user[m].call).api]
       ELSE LeaveOn(m, Raised("call",
                              Raise("APIError", "Runner process terminated, API is unavailable.", "_execute"),
                              <<>>, user[m].call, <<>>))
    /\ UNCHANGED <<inst, locks, queues, procs, single>>

\* _execute: with acquire_with_timeout(self._exec_lock, 10) as acquired
ExecuteAcquireOn(m) ==
    /\ user[m].pc = "acquire"
    /\ IF AcquireResult(LockOf(m))
       THEN /\ locks' = [locks EXCEPT ![inst[m].exec_lock] = m]
            /\ user' = [user EXCEPT ![m].pc = "put"]
       ELSE /\ locks' = [locks EXCEPT ![inst[m].exec_lock] = AfterYield(@, FALSE, TRUE)]
            /\ LeaveOn(m, FinOn(m, Raised("call",
                              Raise("TimeoutError", "CmdQueue is full and was not cleared in 10 seconds!", "_execute"),
                              <<>>, user[m].call, <<>>)))
    /\ UNCHANGED <<inst, queues, procs, single>>

\* _execute: self._CmdQueue.put(_Command(func_name, *args, **kwargs))
ExecutePutOn(m) ==
    /\ user[m].pc = "put"
    /\ IF Command(user[m].call.cmd, user[m].call.args, user[m].call.kwargs) = None
       THEN /\ locks' = [locks EXCEPT ![inst[m].exec_lock] = AfterYield(@, TRUE, TRUE)]
            /\ LeaveOn(m, FinOn(m, Raised("call",
                              Raise("TypeError", "multiple values for argument", "_Command"),
                              <<>>, user[m].call, <<>>)))
            /\ UNCHANGED queues
       ELSE IF CmdQueueOf(m).closed
       THEN /\ locks' = [locks EXCEPT ![inst[m].exec_lock] = AfterYield(@, TRUE, TRUE)]
            /\ LeaveOn(m, FinOn(m, Raised("call",
                              Raise("ValueError", "Queue is closed", "put"),
                              <<>>, user[m].call, <<>>)))
            /\ UNCHANGED queues
       ELSE /\ queues' = [queues EXCEPT ![inst[m].CmdQueue] =
                   QueuePut(@, [env |-> DumpsCommand(Command(user[m].call.cmd, user[m].call.args,
                                                             user[m].call.kwargs)[1]),
                                tag |-> TagOn(m)])]
            /\ user' = [user EXCEPT ![m].pc = "get"]
            /\ UNCHANGED locks
    /\ UNCHANGED <<inst, procs, single>>

\* _execute: ack = self._CmdAckQueue.get()
ExecuteGetOn(m) ==
    /\ user[m].pc = "get"
    /\ CmdAckQueueOf(m).buf # <<>>
    /\ user' = [user EXCEPT
                   ![m].pc = "release",
                   ![m].ack = [env |-> LoadsAck(QueueFront(CmdAckQueueOf(m)).env),
                               tag |-> QueueFront(CmdAckQueueOf(m)).tag,
                               did |-> QueueFront(CmdAckQueueOf(m)).did]]
    /\ queues' = [queues EXCEPT ![inst[m].CmdAckQueue] = QueuePop(@)]
    /\ UNCHANGED <<inst, locks, procs, single>>

\* _execute: the with-block is left normally.
ExecuteReleaseOn(m) ==
    /\ user[m].pc = "release"
    /\ locks' = [locks EXCEPT ![inst[m].exec_lock] = AfterYield(@, TRUE, FALSE)]
    /\ user' = [user EXCEPT ![m].pc = "deliver"]
    /\ UNCHANGED <<inst, queues, procs, single>>

\* _execute: print the trace and re-raise, or return the result.
ExecuteDeliverOn(m) ==
    /\ user[m].pc = "deliver"
    /\ LeaveOn(m, FinOn(m, Deliver(user[m].ack, user[m].call)))
    /\ UNCHANGED <<inst, locks, queues, procs, single>>

\* m.terminate(): if self.is_alive(): ...
TerminateOn(m) ==
    /\ user[m].pc = "idle"
    /\ user[m].nops < MaxOpsEach
    /\ IF IsAliveOf(m)
       THEN user' = [user EXCEPT ![m].pc = "t_kill", ![m].nops = @ + 1,
                                 ![m].outcome = NoOutcome("terminate", NoCall)]
       ELSE user' = [user EXCEPT ![m].nops = @ + 1,
                                 ![m].outcome = Returned("terminate", None, NoCall, <<>>)]
    /\ UNCHANGED <<inst, locks, queues, procs, single>>

\* self._runner_process.terminate()
TerminateKillOn(m) ==
    /\ user[m].pc = "t_kill"
    /\ procs' = [procs EXCEPT ![inst[m].runner_process].runner = RunnerDead]
    /\ user' = [user EXCEPT ![m].pc = "t_close_cmd"]
    /\ UNCHANGED <<inst, locks, queues, single>>

\* self._CmdQueue.close()
TerminateCloseCmdOn(m) ==
    /\ user[m].pc = "t_close_cmd"
    /\ queues' = [queues EXCEPT ![inst[m].CmdQueue] = QueueClose(@)]
    /\ user' = [user EXCEPT ![m].pc = "t_close_ack"]
    /\ UNCHANGED <<inst, locks, procs, single>>

\* self._CmdAckQueue.close()
TerminateCloseAckOn(m) ==
    /\ user[m].pc = "t_close_ack"
    /\ queues' = [queues EXCEPT ![inst[m].CmdAckQueue] = QueueClose(@)]
    /\ user' = [user EXCEPT ![m].pc = "t_join"]
    /\ UNCHANGED <<inst, locks, procs, single>>

\* The three joins.
TerminateJoinOn(m) ==
    /\ user[m].pc = "t_join"
    /\ RunnerOf(m).state = "dead"
    /\ CmdQueueOf(m).closed /\ CmdAckQueueOf(m).closed
    /\ FeederDrains(CmdQueueOf(m))
    /\ user' = [user EXCEPT ![m].pc = "t_flag"]
    /\ UNCHANGED <<inst, locks, queues, procs, single>>

\* self._terminated = True, and terminate() returns.
TerminateFlagOn(m) ==
    /\ user[m].pc = "t_flag"
    /\ inst' = [inst EXCEPT ![m].terminated = TerminatedSet(@)]
    /\ LeaveOn(m, Returned("terminate", None, NoCall, <<>>))
    /\ UNCHANGED <<locks, queues, procs, single>>

\* The runner process of instance m: cmd = self._CmdQueue.get()
RunnerGetOf(m) ==
    /\ RunnerOf(m).state = "get"
    /\ CmdQueueOf(m).buf # <<>>
    /\ procs' = [procs EXCEPT ![inst[m].runner_process].runner =
                    [@ EXCEPT !.state = "call",
                              !.cmd = LoadsCommand(QueueFront(CmdQueueOf(m)).env),
                              !.tag = QueueFront(CmdQueueOf(m)).tag]]
    /\ queues' = [queues EXCEPT ![inst[m].CmdQueue] = QueuePop(@)]
    /\ UNCHANGED <<inst, locks, user, single>>

\* The runner process of instance m: the invocation on its API instance.
RunnerInvokeOf(m) ==
    /\ RunnerOf(m).state = "call"
    /\ procs' = [procs EXCEPT ![inst[m].runner_process] =
                    [runner |-> [RunnerOf(m) EXCEPT
                                    !.state = "put",
                                    !.ack = RunnerAck(RunnerCall(procs[inst[m].runner_process].api, RunnerOf(m).cmd)),
                                    !.did = [cmd |-> RunnerOf(m).cmd,
                                             exc |-> RunnerCall(procs[inst[m].runner_process].api, RunnerOf(m).cmd).exc,
                                             res |-> RunnerCall(procs[inst[m].runner_process].api, RunnerOf(m).cmd).res]],
                     api |-> RunnerCall(procs[inst[m].runner_process].api, RunnerOf(m).cmd).api]]
    /\ UNCHANGED <<inst, locks, queues, user, single>>

\* The runner process of instance m: self._CmdAckQueue.put(_CommandAck(...))
RunnerPutOf(m) ==
    /\ RunnerOf(m).state = "put"
    /\ queues' = [queues EXCEPT ![inst[m].CmdAckQueue] =
                     QueuePut(@, [env |-> DumpsAck(RunnerOf(m).ack), tag |-> RunnerOf(m).tag,
                                  did |-> RunnerOf(m).did])]
    /\ procs' = [procs EXCEPT ![inst[m].runner_process].runner = RunnerIdle]
    /\ UNCHANGED <<inst, locks, user, single>>

NextMulti ==
    \/ \E m \in Instances : \E c \in CallsOn : GetAttrOn(m, c)
    \/ \E m \in Instances : ExecuteCheckOn(m)
    \/ \E m \in Instances : ExecuteAcquireOn(m)
    \/ \E m \in Instances : ExecutePutOn(m)
    \/ \E m \in Instances : ExecuteGetOn(m)
    \/ \E m \in Instances : ExecuteReleaseOn(m)
    \/ \E m \in Instances : ExecuteDeliverOn(m)
    \/ \E m \in Instances : TerminateOn(m)
    \/ \E m \in Instances : TerminateKillOn(m)
    \/ \E m \in Instances : TerminateCloseCmdOn(m)
    \/ \E m \in Instances : TerminateCloseAckOn(m)
    \/ \E m \in Instances : TerminateJoinOn(m)
    \/ \E m \in Instances : TerminateFlagOn(m)
    \/ \E m \in Instances : RunnerGetOf(m)
    \/ \E m \in Instances : RunnerInvokeOf(m)
    \/ \E m \in Instances : RunnerPutOf(m)

\* The application that has several instances (and makes no use of the
\* single one).
InitSeveral == Init /\ solo = FALSE

SpecMulti == InitSeveral /\ [][NextMulti]_vars

Next ==
    \/ \E t \in Threads : \E c \in Calls : GetAttr(t, c)
    \/ \E t \in Threads : ExecuteCheck(t)
    \/ \E t \in Threads : ExecuteAcquire(t)
    \/ \E t \in Threads : ExecutePut(t)
    \/ \E t \in Threads : ExecuteGet(t)
    \/ \E t \in Threads : ExecuteGetClosed(t)
    \/ \E t \in Threads : ExecuteRelease(t)
    \/ \E t \in Threads : ExecuteDeliver(t)
    \/ \E t \in Threads : CallIsAlive(t)
    \/ \E t \in Threads : Terminate(t)
    \/ \E t \in Threads : TerminateKill(t)
    \/ \E t \in Threads : TerminateCloseCmd(t)
    \/ \E t \in Threads : TerminateCloseAck(t)
    \/ \E t \in Threads : TerminateJoin(t)
    \/ \E t \in Threads : TerminateFlag(t)
    \/ \E t \in Threads : Enter(t)
    \/ \E t \in Threads : Exit(t)
    \/ RunnerGet
    \/ RunnerInvoke
    \/ RunnerPut

Spec == Init /\ [][Next]_vars

\* The runner is a process of its own that the operating system keeps
\* running: a step of its loop that can be taken is taken.  The operations of
\* the API are taken to terminate (RunnerInvoke is one step).
FairSpec ==
    /\ Spec
    /\ WF_vars(RunnerGet)
    /\ WF_vars(RunnerInvoke)
    /\ WF_vars(RunnerPut)

(***************************************************************************)
(* Properties.                                                             *)
(***************************************************************************)
\* Commands in the inbound channel, being executed, and acknowledgements in
\* the outbound channel.
InFlight ==
    Len(CmdQueue.buf) + (IF runner.state \in {"call", "put"} THEN 1 ELSE 0)
    + Len(CmdAckQueue.buf)

IsError(o, kind) == o.status = "raised" /\ o.exc[1].kind = kind

IsUnavailable(o) ==
    /\ o.op = "call"
    /\ IsError(o, "APIError")
    /\ Message(o.exc[1]) = "Runner process terminated, API is unavailable."

IsTimeout(o) == o.op = "call" /\ IsError(o, "TimeoutError")

\* C1: at most one command is in flight (inbound channel + being executed by
\* the runner + outbound channel), in every reachable state, and every step
\* that puts a command on the inbound channel is a step of a thread that
\* holds exec_lock before and after it; the calls of __enter__ / __exit__
\* are among the calls.
C1_OneInFlightUnderMutex ==
    /\ [](InFlight <= 1)
    /\ [][Len(CmdQueue'.buf) > Len(CmdQueue.buf) =>
            \E t \in Threads : /\ pc[t] = "put" /\ pc'[t] = "get"
                               /\ exec_lock = t /\ exec_lock' = t]_vars

\* C1 witness: the open() call of __enter__ is in flight under the lock while
\* another thread is trying to acquire the lock.
C1_Witness ==
    \E t, u \in Threads :
        /\ t # u
        /\ ctx[t] = "enter" /\ pc[t] = "get" /\ exec_lock = t
        /\ InFlight = 1
        /\ pc[u] = "acquire"

\* C2: a forwarding call takes, and returns or re-raises from, only the
\* acknowledgement the runner produced for its own command: the envelope a
\* thread holds, and the one its outcome came from, carry the tag of its own
\* call and were built by the runner from the very call the thread made.
C2_OwnAcknowledgement ==
    \A t \in Threads :
        /\ pc[t] \in {"release", "deliver"} =>
              ack[t].tag = Tag(t) /\ ack[t].did.cmd = call[t]
        /\ outcome[t].from # <<>> =>
              outcome[t].from = Tag(t) /\ outcome[t].did.cmd = outcome[t].cmd

\* C2 witness: one thread's call re-raised the error of its own operation
\* while another thread's call timed out on the lock.
C2_Witness ==
    \E t, u \in Threads :
        /\ t # u
        /\ outcome[t].status = "raised" /\ outcome[t].from = Tag(t)
        /\ IsTimeout(outcome[u])

\* The outcome o of a call through the proxy agrees with the outcome w of
\* the call on the reference instance: the same value returned, or an error
\* of the same kind raised (the messages are not even compared).
SameOutcome(o, w) ==
    IF w.exc # None
    THEN o.status = "raised" /\ o.exc[1].kind = w.exc[1].kind
    ELSE o.status = "returned" /\ o.res = w.res

\* C3: in single-threaded use, every forwarding call made on a live
\* instance ends with the outcome (value returned, or kind of error raised)
\* the same call has on one local API instance that received the same calls
\* in the same order.
C3_SameAsLocal ==
    solo => \A t \in Threads :
        (outcome[t].op = "call" /\ outcome[t].status # "none"
         /\ outcome[t].want # None)
        => SameOutcome(outcome[t], outcome[t].want[1])

IsPrefix(a, b) == Len(a) <= Len(b) /\ \A i \in 1..Len(a) : a[i] = b[i]

\* C4: in single-threaded use, the i-th command the runner invokes and the
\* i-th acknowledgement the caller receives are those of the i-th command
\* submitted, and the commands are submitted in the order of the calls.
C4_ProgramOrder ==
    solo =>
        /\ IsPrefix(execLog, sentLog)
        /\ IsPrefix(recvLog, execLog)
        /\ \A i, j \in 1..Len(sentLog) : i < j => sentLog[i][2] < sentLog[j][2]

\* C4 witness: one thread made three successful calls (open, write, read)
\* and received the three acknowledgements, the last with the value written.
C4_Witness ==
    /\ solo
    /\ Len(recvLog) = 3
    /\ outcome[SoloThread].op = "call"
    /\ outcome[SoloThread].status = "returned"
    /\ outcome[SoloThread].res = <<1>>

\* C5: when the operation the runner invoked for a call raised an error of
\* kind K with message M, the call raises an error of kind K with message M;
\* the trace of the raise is printed, the raised value carries no trace, and
\* no result is returned.
C5_ErrorRoundTrip ==
    \A t \in Threads :
        (outcome[t].from # <<>> /\ outcome[t].did.exc # None) =>
            /\ outcome[t].status = "raised"
            /\ outcome[t].res = None
            /\ outcome[t].exc[1].kind = outcome[t].did.exc[1].kind
            /\ Message(outcome[t].exc[1]) = Message(outcome[t].did.exc[1])
            /\ outcome[t].printed = outcome[t].did.exc[1].tb
            /\ outcome[t].printed # <<>>
            /\ outcome[t].exc[1].tb = <<>>

\* C5 witness: a call re-raised the APIError its operation raised in the
\* runner, and printed the trace.
C5_Witness ==
    \E t \in Threads :
        /\ outcome[t].from # <<>>
        /\ outcome[t].did.exc # None
        /\ IsError(outcome[t], "APIError")
        /\ Message(outcome[t].exc[1]) = "not open"
        /\ outcome[t].printed # <<>>

\* C6: once _terminated is set, the step of a forwarding call that checks
\* is_alive() raises the "unavailable" APIError and changes neither the
\* lock, nor the queues, nor the runner, nor the flag, whoever holds the
\* lock.
C6_UnavailableAfterTerminate ==
    [][\A t \in Threads :
         (terminated /\ pc[t] = "execute" /\ pc'[t] # "execute") =>
            /\ IsUnavailable(outcome'[t])
            /\ pc'[t] = "idle"
            /\ UNCHANGED <<exec_lock, CmdQueue, CmdAckQueue, runner, terminated, sentLog>>]_vars

\* C6 witness: a call failed with "unavailable" on a terminated instance
\* whose lock is held.
C6_Witness ==
    /\ terminated
    /\ exec_lock # NoThread
    /\ \E t \in Threads : IsUnavailable(outcome[t])

C8_AcquisitionTimeout ==
    [][\A t \in Threads :
         (pc[t] = "acquire" /\ exec_lock \notin {NoThread, t}
          /\ pc'[t] # "acquire") =>
            /\ IsTimeout(outcome'[t])
            /\ pc'[t] = "idle"
            /\ exec_lock' = exec_lock
            /\ UNCHANGED <<CmdQueue, CmdAckQueue, runner, sentLog, recvLog>>]_vars

\* C8 witness: a call timed out while another thread held the lock waiting
\* for its acknowledgement, and that thread still holds it.
C8_Witness ==
    \E t, u \in Threads :
        /\ t # u
        /\ IsTimeout(outcome[t])
        /\ pc[t] = "idle"
        /\ exec_lock = u /\ pc[u] = "get"

\* C9: the lock is held by a thread only inside the with-block of its
\* _execute: once the block has been left, normally or by an exception, the
\* thread does not hold the lock.
C9_ReleasedOnEveryExit ==
    \A t \in Threads : exec_lock = t => pc[t] \in {"put", "get", "release"}

\* The step in which thread t calls terminate().
TerminateCalled(t) ==
    /\ outcome'[t].op = "terminate"
    /\ \/ pc[t] = "idle" /\ nops'[t] = nops[t] + 1
       \/ pc[t] = "exit_terminate" /\ pc'[t] # "exit_terminate"

\* C10: terminate() called when _terminated is set returns at once without
\* raising, performs no process or queue operation and leaves the flag set;
\* is_alive() and terminate() never raise, and is_alive() returns the
\* negation of the flag without changing anything.
C10_TerminateIdempotent ==
    /\ [][\A t \in Threads :
            (terminated /\ TerminateCalled(t)) =>
               /\ outcome'[t].status = "returned"
               /\ pc'[t] = "idle"
               /\ UNCHANGED <<terminated, runner, CmdQueue, CmdAckQueue, exec_lock, kills>>]_vars
    /\ [][\A t \in Threads :
            (pc[t] = "idle" /\ nops'[t] = nops[t] + 1 /\ outcome'[t].op = "is_alive") =>
               /\ outcome'[t].status = "returned"
               /\ outcome'[t].res = <<~terminated>>
               /\ UNCHANGED <<terminated, runner, CmdQueue, CmdAckQueue, exec_lock, kills>>]_vars
    /\ [](\A t \in Threads :
            outcome[t].op \in {"is_alive", "terminate"} => outcome[t].status # "raised")

\* C10 witness: both threads' terminate() calls have returned, the instance
\* is terminated, and the runner process was stopped once only: one of the
\* two calls found the flag set.
C10_Witness ==
    /\ terminated
    /\ kills = 1
    /\ \A t \in Threads :
          outcome[t].op = "terminate" /\ outcome[t].status = "returned"

\* The step in which thread t calls is_alive().
IsAliveCalled(t) ==
    pc[t] = "idle" /\ nops'[t] = nops[t] + 1 /\ outcome'[t].op = "is_alive"

\* C11: the flag is clear from construction until a terminate() completes:
\* it changes only in the last step of a terminate(), and only from clear to
\* set; once set it stays set whatever is called afterwards; is_alive()
\* returns the negation of the flag and changes nothing of the instance
\* (flag, lock, queues, runner, its API instance) nor of the other threads.
C11_LivenessMonotonic ==
    /\ [](SumOps(Threads) = 0 => ~terminated)
    /\ [][terminated => terminated']_vars
    /\ [][terminated' # terminated =>
            \E t \in Threads :
                /\ pc[t] = "t_flag" /\ pc'[t] = "idle"
                /\ outcome'[t].op = "terminate" /\ outcome'[t].status = "returned"]_vars
    /\ [][\A t \in Threads :
            IsAliveCalled(t) =>
               /\ outcome'[t].res = <<~terminated>>
               /\ UNCHANGED <<terminated, exec_lock, CmdQueue, CmdAckQueue, runner, api, ctx, kills>>
               /\ \A u \in Threads \ {t} : pc'[u] = pc[u] /\ outcome'[u] = outcome[u]]_vars

\* C11 witness: is_alive() returned True to one thread before the other
\* thread's terminate() completed, and False to that thread after it.
C11_Witness ==
    /\ terminated
    /\ \E t, u \in Threads :
          /\ t # u
          /\ outcome[u].op = "is_alive" /\ outcome[u].res = <<TRUE>>
          /\ outcome[t].op = "is_alive" /\ outcome[t].res = <<FALSE>>

\* The command of thread t's call is on the inbound channel.
Submitted(t) ==
    pc[t] = "get" /\ \E i \in 1..Len(CmdQueue.buf) : CmdQueue.buf[i].tag = Tag(t)

\* The acknowledgement of thread t's call is on the outbound channel.
Acknowledged(t) ==
    \E i \in 1..Len(CmdAckQueue.buf) :
        CmdAckQueue.buf[i].tag = Tag(t) /\ CmdAckQueue.buf[i].did.cmd = call[t]

\* C12: the runner's invocation of an operation that raises ends in the
\* except clause with an acknowledgement that carries that very error and
\* its trace; the runner then puts exactly that one acknowledgement and is
\* back at the top of its loop; nothing but _runner_process.terminate()
\* stops the runner; and (runner scheduled, operations terminating) after a
\* failure the runner waits again, and every command submitted is invoked
\* and acknowledged unless the runner process is terminated.
C12_RunnerSurvivesFailure ==
    /\ [][(runner.state = "call" /\ runner'.state \notin {"call", "dead"}) =>
            /\ runner'.state = "put"
            /\ runner'.did.exc # None =>
                  /\ runner'.ack.exception = runner'.did.exc
                  /\ runner'.ack.stacktrace = runner'.did.exc[1].tb
                  /\ runner'.ack.stacktrace # <<>>]_vars
    /\ [][(runner.state = "put" /\ runner'.state \notin {"put", "dead"}) =>
            /\ runner'.state = "get"
            /\ CmdAckQueue'.buf =
                  Append(CmdAckQueue.buf, [env |-> DumpsAck(runner.ack),
                                           tag |-> runner.tag, did |-> runner.did])]_vars
    /\ [][Len(CmdAckQueue'.buf) > Len(CmdAckQueue.buf) => runner.state = "put"]_vars
    /\ [][(runner.state # "dead" /\ runner'.state = "dead") =>
            \E t \in Threads : pc[t] = "t_kill" /\ pc'[t] # "t_kill"]_vars
    /\ (runner.state = "put" /\ runner.did.exc # None) ~> (runner.state \in {"get", "dead"})
    /\ \A t \in Threads :
          Submitted(t) ~> (Acknowledged(t) \/ runner.state = "dead")

\* C12 witness: each thread made one call; the read_u32() of one failed in
\* the runner ("not open", so it ran before the open()), and the open() of
\* the other was then executed, acknowledged and returned.
C12_Witness ==
    \E t, u \in Threads :
        /\ t # u
        /\ nops[t] = 1 /\ nops[u] = 1
        /\ outcome[t].cmd.cmd = "read_u32"
        /\ outcome[t].from # <<>> /\ outcome[t].did.exc # None
        /\ IsError(outcome[t], "APIError")
        /\ Message(outcome[t].exc[1]) = "not open"
        /\ outcome[u].cmd.cmd = "open"
        /\ outcome[u].from # <<>> /\ outcome[u].status = "returned"

\* C13: whenever a thread's __exit__ finishes (the scope was entered, its
\* body ended or raised, and __exit__ returns or raises), the instance is
\* terminated and the runner process is stopped.
C13_ScopeExitTerminates ==
    [][\A t \in Threads :
         (ctx[t] = "exit" /\ ctx'[t] = "none") =>
            terminated' /\ runner'.state = "dead"]_vars

\* The statements of terminate()'s body, in the order of the source.
TerminateOrder ==
    { <<"t_kill", "t_close_cmd">>, <<"t_close_cmd", "t_close_ack">>,
      <<"t_close_ack", "t_join">>, <<"t_join", "t_flag">>, <<"t_flag", "idle">> }

\* C14: a thread in terminate() goes through stop-the-runner, close the
\* inbound queue, close the outbound queue, join, set the flag, in this
\* order and with these effects; so a closed inbound queue means a stopped
\* runner, a closed outbound queue a closed inbound queue, and the flag is
\* set only with the runner stopped (by at least one kill) and both queues
\* closed.
C14_TerminateOrder ==
    /\ [][\A t \in Threads :
            (pc[t] \in {p[1] : p \in TerminateOrder} /\ pc'[t] # pc[t]) =>
               /\ <<pc[t], pc'[t]>> \in TerminateOrder
               /\ pc[t] = "t_kill" => runner'.state = "dead" /\ terminated' = terminated
               /\ pc[t] = "t_close_cmd" => CmdQueue'.closed /\ terminated' = terminated
               /\ pc[t] = "t_close_ack" => CmdAckQueue'.closed /\ terminated' = terminated
               /\ pc[t] = "t_join" => terminated' = terminated
               /\ pc[t] = "t_flag" => terminated']_vars
    /\ [](CmdQueue.closed => runner.state = "dead")
    /\ [](CmdAckQueue.closed => CmdQueue.closed)
    /\ [](\A t \in Threads :
            pc[t] = "t_flag" =>
               runner.state = "dead" /\ CmdQueue.closed /\ CmdAckQueue.closed)
    /\ [](terminated =>
            /\ runner.state = "dead" /\ kills >= 1
            /\ CmdQueue.closed /\ CmdAckQueue.closed)

\* C14 witness: the flag is set while the other thread, which called
\* terminate() too, is still at its join: runner stopped, queues closed.
C14_Witness ==
    /\ terminated
    /\ \E t \in Threads : pc[t] = "t_join"

\* C15: in every state in which is_alive() returns True, a forwarding call
\* that has obtained the lock can still be served: the runner process is
\* running to execute its command, or the acknowledgement of its command is
\* already on the outbound queue.
C15_AliveAbleToExecute ==
    \A t \in Threads :
        (IsAlive /\ exec_lock = t /\ pc[t] \in {"put", "get"}) =>
            runner.state # "dead" \/ Acknowledged(t)

\* C17: when the operation the runner invoked for a call returned normally,
\* the call returns, raises nothing, prints nothing, and its value is the
\* very value the operation returned (0 included); for an operation that
\* returned no value the call returns no value.
C17_ReturnsExactValue ==
    \A t \in Threads :
        (outcome[t].from # <<>> /\ outcome[t].did.exc = None) =>
            /\ outcome[t].status = "returned"
            /\ outcome[t].exc = None
            /\ outcome[t].printed = <<>>
            /\ outcome[t].res = outcome[t].did.res

\* C17 witness: a read_u32() returned the value 0 the runner's operation
\* returned, while the other thread's open() returned no value.
C17_Witness ==
    \E t, u \in Threads :
        /\ t # u
        /\ outcome[t].from # <<>> /\ outcome[t].cmd.cmd = "read_u32"
        /\ outcome[t].status = "returned" /\ outcome[t].res = <<0>>
        /\ outcome[t].did.res = <<0>>
        /\ outcome[u].from # <<>> /\ outcome[u].cmd.cmd = "open"
        /\ outcome[u].status = "returned" /\ outcome[u].res = None

\* C18: a call that has taken its acknowledgement leaves the with-block and
\* releases the lock before it prints, raises or returns: a thread that is
\* about to deliver, and a thread whose call ended from an acknowledgement
\* (with the error of the operation or with its value), does not hold the
\* lock; the step that delivers finds the lock not held by the thread and
\* leaves the lock alone; and a call that then tries to acquire a free lock
\* gets it.
C18_ReleasedBeforeDelivery ==
    /\ [](\A t \in Threads :
            (pc[t] = "deliver" \/ (pc[t] = "idle" /\ outcome[t].from # <<>>)) =>
               exec_lock # t)
    /\ [][\A t \in Threads :
            (pc[t] = "release" /\ pc'[t] # "release") =>
               /\ pc'[t] = "deliver"
               /\ exec_lock = t /\ exec_lock' = NoThread
               /\ outcome'[t].status = "none"]_vars
    /\ [][\A t \in Threads :
            (pc[t] = "deliver" /\ pc'[t] # "deliver") =>
               /\ outcome'[t].from = Tag(t)
               /\ exec_lock' = exec_lock]_vars
    /\ [][\A t \in Threads :
            (pc[t] = "acquire" /\ pc'[t] # "acquire" /\ exec_lock = NoThread) =>
               pc'[t] = "put" /\ exec_lock' = t]_vars

\* C18 witness: one thread's call re-raised the error of its operation, and
\* the other thread's call, made after it, has acquired the lock.
C18_Witness ==
    \E t, u \in Threads :
        /\ t # u
        /\ pc[t] = "idle"
        /\ outcome[t].from # <<>> /\ outcome[t].did.exc # None
        /\ outcome[t].status = "raised"
        /\ exec_lock = u /\ pc[u] = "put"

\* The tags of the envelopes of a queue, in order.
TagsOf(q) == [i \in 1..Len(q.buf) |-> q.buf[i].tag]

RECURSIVE HeldTags(_)
\* The tags of the acknowledgements the threads of S have taken and not yet
\* delivered.
HeldTags(S) ==
    IF S = {} THEN <<>>
    ELSE LET t == CHOOSE x \in S : TRUE
         IN (IF pc[t] \in {"release", "deliver"} THEN <<ack[t].tag>> ELSE <<>>)
            \o HeldTags(S \ {t})

\* Every envelope there is: on the queues, with the runner, with a caller.
AllTags ==
    TagsOf(CmdQueue)
    \o (IF runner.state \in {"call", "put"} THEN <<runner.tag>> ELSE <<>>)
    \o TagsOf(CmdAckQueue)
    \o HeldTags(Threads)

NoDuplicates(s) == \A i, j \in 1..Len(s) : i # j => s[i] # s[j]

\* C19: no call has two envelopes anywhere; a step enqueues at most one
\* command, that of a call at its put, and a call past its put never puts
\* or acquires again; the runner takes one command per get, invokes the
\* operation in the one step that follows (the API instance changes in no
\* other step), and puts one acknowledgement tagged with that command; an
\* envelope leaves a queue in exactly one get, of the runner for commands
\* and of one caller for acknowledgements; in single-threaded use no tag is
\* submitted, invoked or received twice.
C19_NoRetryNoDuplication ==
    /\ [](NoDuplicates(AllTags))
    /\ [](solo => NoDuplicates(sentLog) /\ NoDuplicates(execLog) /\ NoDuplicates(recvLog))
    /\ [][CmdQueue'.buf # CmdQueue.buf =>
            \/ /\ \E t \in Threads : pc[t] = "put" /\ pc'[t] = "get"
                                       /\ TagsOf(CmdQueue') = Append(TagsOf(CmdQueue), Tag(t))
            \/ /\ runner.state = "get" /\ runner'.state = "call"
               /\ CmdQueue'.buf = Tail(CmdQueue.buf)
               /\ runner'.tag = Head(CmdQueue.buf).tag]_vars
    /\ [][\A t \in Threads :
            pc[t] \in {"get", "release", "deliver"} =>
               pc'[t] \notin {"execute", "acquire", "put"}]_vars
    /\ [][(api' # api \/ runner'.did # runner.did) =>
            \/ runner.state = "call" /\ runner'.state = "put"
            \/ runner'.did = NoDid /\ api' = api]_vars
    /\ [][(runner.state = "call" /\ runner' # runner) =>
            runner'.state \in {"put", "dead"}]_vars
    /\ [][CmdAckQueue'.buf # CmdAckQueue.buf =>
            \/ /\ runner.state = "put" /\ runner'.state = "get"
               /\ TagsOf(CmdAckQueue') = Append(TagsOf(CmdAckQueue), runner.tag)
            \/ /\ CmdAckQueue'.buf = Tail(CmdAckQueue.buf)
               /\ \E t \in Threads :
                     /\ pc[t] = "get" /\ pc'[t] = "release"
                     /\ ack'[t].tag = Head(CmdAckQueue.buf).tag
                     /\ \A u \in Threads \ {t} : ack'[u] = ack[u]]_vars

\* C19 witness: a thread's only call timed out and was not retried; the
\* other thread's call was acknowledged once, and no envelope is left over.
C19_Witness ==
    \E t, u \in Threads :
        /\ t # u
        /\ pc[t] = "idle" /\ pc[u] = "idle"
        /\ nops[u] = 1 /\ IsTimeout(outcome[u])
        /\ outcome[t].from = Tag(t)
        /\ AllTags = <<>>

\* The acknowledgement e (as built, pickled or unpickled: the fields tested
\* are there in all three) of an invocation that did "did".
AckShape(e, did) ==
    /\ e.exception = None \/ e.result = None
    /\ did.exc # None =>
          /\ e.exception # None
          /\ e.exception[1].args = did.exc[1].args
          /\ e.stacktrace = did.exc[1].tb /\ e.stacktrace # <<>>
          /\ e.result = None
    /\ did.exc = None =>
          /\ e.exception = None
          /\ e.stacktrace = <<>>
          /\ e.result = did.res

\* C20: every acknowledgement, where the runner built it, on the outbound
\* queue, and in the hands of a caller, has at most one of exception and
\* result; the one of a failed invocation has the exception and its trace
\* and no result, the one of a normal return has no exception, an empty
\* trace, and the value returned.
C20_AckShape ==
    /\ runner.state = "put" => AckShape(runner.ack, runner.did)
    /\ \A i \in 1..Len(CmdAckQueue.buf) :
          AckShape(CmdAckQueue.buf[i].env, CmdAckQueue.buf[i].did)
    /\ \A t \in Threads :
          pc[t] \in {"release", "deliver"} => AckShape(ack[t].env, ack[t].did)

\* C20 witness: the acknowledgement of a failed invocation is on the
\* outbound queue, and a caller holds the acknowledgement of a read_u32()
\* that returned a value.
C20_Witness ==
    /\ \E i \in 1..Len(CmdAckQueue.buf) :
          /\ CmdAckQueue.buf[i].did.exc # None
          /\ CmdAckQueue.buf[i].env.exception # None
    /\ \E t \in Threads :
          /\ pc[t] = "deliver"
          /\ ack[t].env.result # None

\* All that instance m consists of: its attributes, the objects they refer
\* to, and the thread that drives it.
ViewOf(m) ==
    <<inst[m], LockOf(m), CmdQueueOf(m), CmdAckQueueOf(m),
      procs[inst[m].runner_process], user[m]>>

\* The objects instance m refers to.
ObjectsOf(m) ==
    { <<"lock", inst[m].exec_lock>>, <<"queue", inst[m].CmdQueue>>,
      <<"queue", inst[m].CmdAckQueue>>, <<"process", inst[m].runner_process>> }

\* C16: two instances share no lock, queue or runner process, and each has
\* four objects; no step changes anything of two instances (so whatever
\* one instance and its runner do, a call in flight or held up, a
\* terminate(), the other instance is as it was); the thread of an
\* instance always gets the lock at once and never times out; the
\* acknowledgement it takes is the one its own instance's runner built for
\* its own call; its calls end as they do on a local API instance of its
\* own; and an instance is terminated only by its own terminate(), so a
\* call is refused as "unavailable" only on an instance terminated itself.
C16_InstancesIsolated ==
    /\ [](\A m, n \in Instances :
            /\ Cardinality(ObjectsOf(m)) = 4
            /\ m # n => ObjectsOf(m) \cap ObjectsOf(n) = {})
    /\ [][\A m, n \in Instances :
            m # n => (ViewOf(m)' = ViewOf(m) \/ ViewOf(n)' = ViewOf(n))]_vars
    /\ [][\A m \in Instances :
            (user[m].pc = "acquire" /\ user'[m].pc # "acquire") =>
               user'[m].pc = "put" /\ LockOf(m)' = m]_vars
    /\ [][\A m \in Instances :
            inst'[m].terminated # inst[m].terminated => user[m].pc = "t_flag"]_vars
    /\ [](\A m \in Instances :
            /\ ~IsTimeout(user[m].outcome)
            /\ IsUnavailable(user[m].outcome) => inst[m].terminated
            /\ user[m].pc \in {"release", "deliver"} =>
                  user[m].ack.tag = TagOn(m) /\ user[m].ack.did.cmd = user[m].call
            /\ (user[m].outcome.op = "call" /\ user[m].outcome.status # "none"
                /\ user[m].outcome.want # None) =>
                  /\ user[m].outcome.from = TagOn(m)
                  /\ SameOutcome(user[m].outcome, user[m].outcome.want[1]))

\* C16 witness: the call of one instance is in flight, its runner in the
\* middle of the operation, while the thread of the other instance, after
\* a first call that returned, holds its own lock waiting for the
\* acknowledgement of its second call.
C16_Witness ==
    \E m, n \in Instances :
        /\ m # n
        /\ user[m].pc = "get" /\ LockOf(m) = m /\ RunnerOf(m).state = "call"
        /\ user[n].pc = "get" /\ LockOf(n) = n /\ user[n].nops = 2
        /\ user[n].local.opened

\* C21: when the name of the command the runner took is not among the bound
\* methods of its API instance, the invocation step ends in the except
\* clause like any failure: an acknowledgement with the KeyError and its
\* trace, the API instance untouched, the runner alive; the runner puts it
\* and is back at its get; and the caller that takes it raises KeyError for
\* that name, with the trace printed.
C21_LookupErrorAcknowledged ==
    /\ [][(runner.state = "call" /\ runner.cmd.cmd \notin ApiMethods
           /\ runner'.state \notin {"call", "dead"}) =>
              /\ runner'.state = "put"
              /\ runner'.ack.exception # None
              /\ runner'.ack.exception[1].kind = "KeyError"
              /\ Message(runner'.ack.exception[1]) = runner.cmd.cmd
              /\ runner'.ack.stacktrace # <<>>
              /\ runner'.ack.result = None
              /\ api' = api]_vars
    /\ [][(runner.state = "put" /\ runner.did.cmd.cmd \notin ApiMethods
           /\ runner'.state \notin {"put", "dead"}) =>
              /\ runner'.state = "get"
              /\ Len(CmdAckQueue'.buf) = Len(CmdAckQueue.buf) + 1]_vars
    /\ [][(runner.state # "dead" /\ runner'.state = "dead") =>
            \E t \in Threads : pc[t] = "t_kill"]_vars
    /\ [](\A t \in Threads :
            (outcome[t].from # <<>> /\ outcome[t].cmd.cmd \notin ApiMethods) =>
               /\ IsError(outcome[t], "KeyError")
               /\ Message(outcome[t].exc[1]) = outcome[t].cmd.cmd
               /\ outcome[t].printed # <<>>)

\* C21 witness: a thread's mro() call raised the runner's KeyError, and the
\* other thread, which holds the lock (so it acquired it afterwards), has
\* taken the acknowledgement of its own command, executed normally.
C21_Witness ==
    \E t, u \in Threads :
        /\ t # u
        /\ outcome[t].cmd.cmd = "mro"
        /\ outcome[t].from # <<>> /\ IsError(outcome[t], "KeyError")
        /\ pc[t] = "idle"
        /\ pc[u] = "release" /\ exec_lock = u
        /\ ack[u].did.exc = None /\ ack[u].tag = Tag(u)

\* C22: every command the runner takes (so every name __getattr__ returned
\* a forwarding callable for) names a bound method of the runner's API
\* instance, and no invocation ends with the KeyError of the lookup.
C22_ValidationAgrees ==
    /\ runner.state \in {"call", "put"} => runner.cmd.cmd \in ApiMethods
    /\ runner.state = "put" =>
          (runner.did.exc = None \/ runner.did.exc[1].kind # "KeyError")

\* C23: the step of _runner_process.terminate() leaves the runner stopped,
\* with the command it had taken and the acknowledgement it had built gone,
\* and puts nothing on the outbound queue; from then on the runner stays
\* stopped, no acknowledgement is put on the outbound queue, no command is
\* taken from the inbound queue, and the API instance is not touched (no
\* operation is started).
C23_AbruptTermination ==
    /\ [][\A t \in Threads :
            (pc[t] = "t_kill" /\ pc'[t] # "t_kill") =>
               /\ runner' = RunnerDead
               /\ CmdAckQueue' = CmdAckQueue
               /\ api' = api]_vars
    /\ [][runner.state = "dead" =>
            /\ runner' = runner
            /\ api' = api
            /\ execLog' = execLog
            /\ Len(CmdAckQueue'.buf) <= Len(CmdAckQueue.buf)
            /\ Len(CmdQueue'.buf) >= Len(CmdQueue.buf)]_vars

\* C23 witness: terminate() has completed while a caller waits for an
\* acknowledgement; its command is on no queue: the runner had taken it,
\* and the operation in flight was abandoned.
C23_Witness ==
    /\ terminated
    /\ runner.state = "dead"
    /\ \E t \in Threads : pc[t] = "get" /\ exec_lock = t
    /\ CmdQueue.buf = <<>>
    /\ CmdAckQueue.buf = <<>>

\* C24: a caller that was waiting for its acknowledgement when the runner
\* process was terminated and that leaves _execute from that wait (its
\* call is over) does not hold the lock afterwards.
C24_BlockedCallerFreed ==
    [][\A t \in Threads :
         (pc[t] = "get" /\ runner.state = "dead" /\ pc'[t] = "idle") =>
            exec_lock' # t]_vars

\* C25: no command is put on the inbound queue once the runner process has
\* been stopped or the queue closed; and a forwarding call (one whose
\* arguments make a command) that holds the lock when a terminate() has
\* stopped the runner, and ends, ends from the acknowledgement of its
\* command and without the lock.
C25_CallVersusTerminate ==
    /\ [][Len(CmdQueue'.buf) > Len(CmdQueue.buf) =>
            runner.state # "dead" /\ ~CmdQueue.closed]_vars
    /\ [][\A t \in Threads :
            (pc[t] \in {"put", "get"} /\ runner.state = "dead" /\ pc'[t] = "idle"
             /\ Command(call[t].cmd, call[t].args, call[t].kwargs) # None) =>
               /\ outcome'[t].from # <<>>
               /\ exec_lock' # t]_vars

\* The next statement of terminate() for a thread inside its body.
TerminateStep(t) ==
    \/ TerminateKill(t)
    \/ TerminateCloseCmd(t)
    \/ TerminateCloseAck(t)
    \/ TerminateJoin(t)
    \/ TerminateFlag(t)

\* C26: a thread inside terminate() is never held up: in every reachable
\* state its next statement can be executed, whoever holds the lock and
\* whatever the runner, the callers and the queues are doing (so, the
\* thread being scheduled, terminate() returns with the flag set).
C26_TerminateCompletes ==
    \A t \in Threads :
        pc[t] \in {p[1] : p \in TerminateOrder} => ENABLED TerminateStep(t)

\* C27: when the open() made by __enter__ raises, the exception reaches the
\* caller and the thread is outside the scope again: the with-body is not
\* entered and __exit__ (close, then terminate) is not run, so the step
\* changes neither the flag, the runner process nor the queues; an instance
\* on which terminate() was not called is alive with its runner running
\* afterwards.  __exit__ is only ever run from a with-body.
C27_EnterFailure ==
    [][\A t \in Threads :
          /\ (ctx[t] = "enter" /\ pc'[t] # pc[t] /\ outcome'[t].status = "raised")
                => /\ outcome'[t].exc # None
                   /\ outcome'[t].cmd = Call("open", <<>>, {})
                   /\ outcome'[t].scope = "enter"
                   /\ ctx'[t] = "none"
                   /\ pc'[t] = "idle"
                   /\ call'[t] = NoCall
                   /\ terminated' = terminated
                   /\ runner' = runner
                   /\ CmdQueue' = CmdQueue
                   /\ CmdAckQueue' = CmdAckQueue
                   /\ kills' = kills
                   /\ (kills = 0 /\ ~terminated) => (~terminated' /\ runner'.state # "dead")
          /\ (ctx'[t] = "body" /\ ctx[t] # "body")
                => ctx[t] = "enter" /\ outcome'[t].status = "returned"
          /\ (ctx'[t] = "exit" /\ ctx[t] # "exit") => ctx[t] = "body"
          /\ (pc'[t] = "exit_terminate" /\ pc[t] # "exit_terminate") => ctx[t] = "exit"]_vars

\* The open() of a thread's __enter__ was refused by the runner's API (it was
\* open already); the thread is outside the scope and idle, the instance is
\* alive and its runner waits for the next command.
C27_Witness ==
    \E t \in Threads :
        /\ outcome[t].scope = "enter" /\ outcome[t].status = "raised"
        /\ outcome[t].from # <<>>
        /\ outcome[t].exc[1].kind = "APIError"
        /\ ctx[t] = "none" /\ pc[t] = "idle"
        /\ ~terminated /\ runner.state = "get" /\ kills = 0
        /\ api.opened

====
